---------------------------- MODULE Spec2Model ----------------------------
(***************************************************************************)
(* The collect-the-dot game loop of the gamepad example (the Home          *)
(* component and its helper functions, second half of GameView.tsx).       *)
(*                                                                         *)
(* Numbers.  Every number of the program is a JavaScript number, an        *)
(* IEEE-754 binary64 value, and every operation on numbers rounds as the   *)
(* program's does: to the nearest value, ties to even.  A position of     *)
(* 242.8 is the binary64 value nearest to 242.8, and a comparison such     *)
(* as dist <= limit is made between the rounded values.  Math.hypot is    *)
(* computed as V8 computes it: the arguments are divided by the greater    *)
(* magnitude, the squares summed with a compensated summation, and the     *)
(* square root of the sum multiplied by that magnitude.                    *)
(*                                                                         *)
(* Time.  The step callback uses a timestamp only in the difference        *)
(* timestamp - lastFrame.current.  The clock of the model is therefore     *)
(* counted from the latest frame: a frame arrives at Clock + d, in whole   *)
(* milliseconds, and after it the origin is moved to that frame.           *)
(*                                                                         *)
(* Scheduling.  step(timestamp) calls setPlayer with the updater.  When    *)
(* Home has no update pending, React may call the updater at once, inside  *)
(* step: the collision is tested against targetRef.current of that        *)
(* moment, a hit writes the new target to targetRef.current there and     *)
(* then, and its setTarget and setScore wait for the next render.  It may  *)
(* also queue the updater, as it does whenever an update is pending; the   *)
(* next render of Home evaluates the queued updaters with the refs'        *)
(* contents of that moment.  Which of the two React does with an empty     *)
(* queue depends on its own bookkeeping of scheduled work, so both are     *)
(* kept.  A render commits the player, the target and the score together.  *)
(* The effects of a commit run after it, before the next render, with the  *)
(* values of the render that scheduled them.  Animation frames may arrive  *)
(* between any two of these, also between a commit and its effects.        *)
(***************************************************************************)
EXTENDS Integers, Sequences, FiniteSets, TLC

VARIABLES
    boardSize,   \* Home.boardSize of the latest render, px
    player,      \* the player state: [x, y, rotation, scale]
    target,      \* the target state: [x, y]
    targetRef,   \* targetRef.current
    score,       \* the score state
    lastFrame,   \* lastFrame.current: NULL or a timestamp, ms
    rafId,       \* rafId.current: NULL or a request id
    rafQueue,    \* the pending animation-frame requests: [id, loop, boardSize]
    nextRaf,     \* the id the next requestAnimationFrame returns
    loop,        \* which run of the game-loop effect is the active one
    mounted,     \* the game-loop effect is mounted
    sync,        \* the effect that syncs targetRef: [due, target]
    restart,     \* the game-loop effect is due to run again
    updates,     \* the setPlayer calls pending: [dt, delta, size, loop, eager]
    frames,      \* history: the number of step callbacks run so far
    stepped,     \* history: a step callback of a torn-down loop has run
    evals,       \* history: the number of updater evaluations so far
    evs,         \* history: the evaluations of the latest step or render
    collected,   \* history: spawn numbers scored, latest target scored
    spawned,     \* history: the number of targets spawned by hits
    probe        \* the call of a helper function under test

vars == << boardSize, player, target, targetRef, score, lastFrame, rafId,
           rafQueue, nextRaf, loop, mounted, sync, restart, updates,
           frames, stepped, evals, evs, collected, spawned, probe >>

----------------------------------------------------------------------------
(* Program constants *)

\* null / undefined: an integer outside every range the model uses
NULL == 0 - 1000

PLAYER_SIZE == 44
TARGET_SIZE == 26
BASE_SPEED == 240
MinBoard == 260
MaxBoard == 420
MinDistance == 100
MaxTries == 20

----------------------------------------------------------------------------
(* Numbers: IEEE-754 binary64, as the JavaScript number type *)

Abs(n) == IF n < 0 THEN 0 - n ELSE n
Min(a, b) == IF a < b THEN a ELSE b
Max(a, b) == IF a > b THEN a ELSE b
Sign(n) == IF n > 0 THEN 1 ELSE IF n < 0 THEN 0 - 1 ELSE 0

\* Non-negative integers of any size: the limbs, least significant first,
\* no zero at the top.
LimbBits == 14
Radix == 2 ^ LimbBits

RECURSIVE Carry(_, _)
Carry(s, c) ==
    IF s = << >>
    THEN IF c = 0 THEN << >> ELSE << c % Radix >> \o Carry(<< >>, c \div Radix)
    ELSE << (Head(s) + c) % Radix >>
           \o Carry(Tail(s), (Head(s) + c) \div Radix)

RECURSIVE Trim(_)
Trim(s) ==
    IF s # << >> /\ s[Len(s)] = 0 THEN Trim(SubSeq(s, 1, Len(s) - 1)) ELSE s

Limb(s, i) == IF i <= Len(s) THEN s[i] ELSE 0

MInt(n) == Carry(<< n >>, 0)

MAdd(x, y) ==
    Carry([i \in 1 .. Max(Len(x), Len(y)) |-> Limb(x, i) + Limb(y, i)], 0)

RECURSIVE MCmpFrom(_, _, _)
MCmpFrom(x, y, i) ==
    IF i = 0 THEN 0
    ELSE IF Limb(x, i) > Limb(y, i) THEN 1
    ELSE IF Limb(x, i) < Limb(y, i) THEN 0 - 1
    ELSE MCmpFrom(x, y, i - 1)

\* -1, 0 or 1 as x < y, x = y or x > y
MCmp(x, y) == MCmpFrom(x, y, Max(Len(x), Len(y)))

RECURSIVE Borrow(_, _, _, _)
Borrow(x, y, i, b) ==
    IF i > Len(x) THEN << >>
    ELSE LET v == x[i] - Limb(y, i) - b
         IN  IF v < 0 THEN << v + Radix >> \o Borrow(x, y, i + 1, 1)
             ELSE << v >> \o Borrow(x, y, i + 1, 0)

\* x - y, for x >= y
MSub(x, y) == Trim(Borrow(x, y, 1, 0))

RECURSIVE Column(_, _, _, _)
Column(x, y, k, i) ==
    IF i > Len(x) THEN 0
    ELSE (IF k + 1 - i \in 1 .. Len(y) THEN x[i] * y[k + 1 - i] ELSE 0)
         + Column(x, y, k, i + 1)

\* x * y, for x and y of at most 7 limbs
MMul(x, y) ==
    IF x = << >> \/ y = << >> THEN << >>
    ELSE Trim(Carry([k \in 1 .. Len(x) + Len(y) - 1 |-> Column(x, y, k, 1)], 0))

\* The number of bits of n, 0 <= n < Radix
RECURSIVE IntBits(_)
IntBits(n) == IF n = 0 THEN 0 ELSE 1 + IntBits(n \div 2)

MBits(x) ==
    IF x = << >> THEN 0 ELSE LimbBits * (Len(x) - 1) + IntBits(x[Len(x)])

\* x * 2^k
MShl(x, k) ==
    IF x = << >> THEN << >>
    ELSE [i \in 1 .. k \div LimbBits |-> 0]
           \o Carry([i \in 1 .. Len(x) |-> x[i] * 2 ^ (k % LimbBits)], 0)

\* x \div 2^k
MShr(x, k) ==
    LET q == k \div LimbBits
        r == k % LimbBits
    IN  IF q >= Len(x) THEN << >>
        ELSE Trim([i \in 1 .. Len(x) - q |->
                      x[i + q] \div 2 ^ r
                      + (Limb(x, i + q + 1) % 2 ^ r) * 2 ^ (LimbBits - r)])

\* Bit j of x, bit 0 the least significant
MBit(x, j) == (Limb(x, j \div LimbBits + 1) \div 2 ^ (j % LimbBits)) % 2

\* Some bit of x below bit j is set
MAnyBelow(x, j) ==
    \/ \E i \in 1 .. Min(j \div LimbBits, Len(x)) : x[i] # 0
    \/ Limb(x, j \div LimbBits + 1) % 2 ^ (j % LimbBits) # 0

\* The greatest q <= guess with q * d <= r
RECURSIVE Fit(_, _, _)
Fit(r, d, q) ==
    IF q > 0 /\ MCmp(MMul(d, << q >>), r) > 0 THEN Fit(r, d, q - 1) ELSE q

\* Long division of the limbs i, i - 1, .. 1 of x by d, the top limb of d
\* at least Radix \div 2; r < d is the remainder and q the quotient of the
\* limbs above i.  DivDigit finds the limb i of the quotient, DivNext goes
\* on with what is left of cur, the remainder followed by the limb i of x.
RECURSIVE DivFrom(_, _, _, _, _)
DivNext(x, d, i, cur, digit, q) ==
    IF digit = 0 THEN DivFrom(x, d, i - 1, cur, << 0 >> \o q)
    ELSE DivFrom(x, d, i - 1, MSub(cur, MMul(d, << digit >>)),
                 << digit >> \o q)

DivDigit(x, d, i, cur, q) ==
    DivNext(x, d, i, cur,
            Fit(cur, d,
                Min(Radix - 1,
                    (Limb(cur, Len(d) + 1) * Radix + Limb(cur, Len(d)))
                      \div d[Len(d)])),
            q)

DivFrom(x, d, i, r, q) ==
    IF i = 0 THEN [q |-> Trim(q), exact |-> r = << >>]
    ELSE DivDigit(x, d, i, Trim(<< x[i] >> \o r), q)

DivAll(x, d) == DivFrom(x, d, Len(x), << >>, << >>)
DivScaled(x, d, up) == DivAll(MShl(x, up), MShl(d, up))

\* x \div d and whether the division is exact, for d > 0
MDiv(x, d) == DivScaled(x, d, LimbBits - IntBits(d[Len(d)]))

\* The integer square root of n < Radix * Radix, by Newton's iteration
\* from above
RECURSIVE IntRoot(_, _)
IntRoot(n, x) ==
    LET y == (x + n \div x) \div 2 IN IF y >= x THEN x ELSE IntRoot(n, y)

RECURSIVE RootFrom(_, _)
RootNext(x, r, y) == IF MCmp(y, r) >= 0 THEN r ELSE RootFrom(x, y)
RootFrom(x, r) == RootNext(x, r, MShr(MAdd(r, MDiv(x, r).q), 1))

RootTop(x) ==
    IF Len(x) % 2 = 1 THEN x[Len(x)]
    ELSE x[Len(x)] * Radix + x[Len(x) - 1]
RootFirst(x, top) ==
    [i \in 1 .. (Len(x) - 1) \div 2 |-> 0] \o MInt(IntRoot(top, top) + 1)
RootChecked(x, r) == [q |-> r, exact |-> MCmp(MMul(r, r), x) = 0]

\* The integer square root of x > 0 and whether it is exact
MRoot(x) == RootChecked(x, RootFrom(x, RootFirst(x, RootTop(x))))

\* A number: sign s, and magnitude m * 2^e for a mantissa m of exactly
\* MantBits bits; zero is Zero.  Infinities, NaN and subnormal numbers do
\* not arise in this program, and no operation of it tells -0 from 0.
MantBits == 53
Zero == [s |-> 0, e |-> 0, m |-> << >>]

\* s * q * 2^e, for q of MantBits bits or, after a carry, one more
Packed(s, q, e) ==
    IF MBits(q) > MantBits THEN [s |-> s, e |-> e + 1, m |-> MShr(q, 1)]
    ELSE [s |-> s, e |-> e, m |-> q]

\* n of more than MantBits bits, cut by k bits: to the nearest, ties to even
RoundedUp(n, k, q, sticky) ==
    /\ MBit(n, k - 1) = 1
    /\ (sticky \/ MAnyBelow(n, k - 1) \/ q[1] % 2 = 1)
Cut(s, n, e, sticky, k, q) ==
    Packed(s, IF RoundedUp(n, k, q, sticky) THEN MAdd(q, << 1 >>) ELSE q, e + k)
Fitted(s, n, e, sticky, k) ==
    IF k <= 0 THEN [s |-> s, e |-> e + k, m |-> MShl(n, 0 - k)]
    ELSE Cut(s, n, e, sticky, k, MShr(n, k))

\* s * n * 2^e rounded to the nearest number, ties to even; sticky says that
\* the exact value is a little more than n * 2^e
Rounded(s, n, e, sticky) ==
    IF n = << >> THEN Zero ELSE Fitted(s, n, e, sticky, MBits(n) - MantBits)

\* The mantissa of a power of two
TopBit == MShl(<< 1 >>, MantBits - 1)

\* The number of an integer
Num(n) == Rounded(Sign(n), MInt(Abs(n)), 0, FALSE)

NumNeg(a) == [a EXCEPT !.s = 0 - a.s]
MathAbs(a) == [a EXCEPT !.s = Abs(a.s)]

\* -1, 0 or 1 as a < b, a = b or a > b
NumCmp(a, b) ==
    IF a.s # b.s THEN Sign(a.s - b.s)
    ELSE IF a.s = 0 THEN 0
    ELSE IF a.e # b.e THEN a.s * Sign(a.e - b.e)
    ELSE a.s * MCmp(a.m, b.m)

NumLeq(a, b) == NumCmp(a, b) <= 0
NumLess(a, b) == NumCmp(a, b) < 0
MathMin(a, b) == IF NumLess(b, a) THEN b ELSE a
MathMax(a, b) == IF NumLess(a, b) THEN b ELSE a

\* |x - y|
Gap(x, y) == IF MCmp(x, y) >= 0 THEN MSub(x, y) ELSE MSub(y, x)

\* hi + lo, for hi.e >= lo.e; h is the mantissa of hi at the exponent of lo
Aligned(hi, lo, h) ==
    IF hi.s = lo.s THEN Rounded(hi.s, MAdd(h, lo.m), lo.e, FALSE)
    ELSE Rounded(hi.s * MCmp(h, lo.m), Gap(h, lo.m), lo.e, FALSE)
Ordered(hi, lo) ==
    IF hi.e - lo.e > MantBits + 2 THEN hi
    ELSE Aligned(hi, lo, MShl(hi.m, hi.e - lo.e))

\* a + b
NumAdd(a, b) ==
    IF a.s = 0 THEN b
    ELSE IF b.s = 0 THEN a
    ELSE IF a.e >= b.e THEN Ordered(a, b)
    ELSE Ordered(b, a)

\* a - b
NumSub(a, b) == NumAdd(a, NumNeg(b))

\* a * b; a product with a power of two is exact and only moves the exponent
NumMul(a, b) ==
    IF a.s = 0 \/ b.s = 0 THEN Zero
    ELSE IF a.m = TopBit
    THEN [s |-> a.s * b.s, e |-> a.e + b.e + MantBits - 1, m |-> b.m]
    ELSE IF b.m = TopBit
    THEN [s |-> a.s * b.s, e |-> a.e + b.e + MantBits - 1, m |-> a.m]
    ELSE Rounded(a.s * b.s, MMul(a.m, b.m), a.e + b.e, FALSE)

\* The quotient res of the mantissas, the dividend shifted by k bits
Divided(a, b, k, res) == Rounded(a.s * b.s, res.q, a.e - b.e - k, ~res.exact)

\* a / b, for b # 0; a quotient by a power of two, or of equal mantissas, is
\* exact and only moves the exponent
NumDiv(a, b) ==
    IF a.s = 0 THEN Zero
    ELSE IF b.m = TopBit
    THEN [s |-> a.s * b.s, e |-> a.e - b.e - (MantBits - 1), m |-> a.m]
    ELSE IF a.m = b.m
    THEN [s |-> a.s * b.s, e |-> a.e - b.e - (MantBits - 1), m |-> TopBit]
    ELSE Divided(a, b, MantBits + 3, MDiv(MShl(a.m, MantBits + 3), b.m))

\* The root res of the mantissa shifted by k bits, a.e - k even
Rooted(a, k, res) == Rounded(1, res.q, (a.e - k) \div 2, ~res.exact)
RootShifted(a, k) == Rooted(a, k, MRoot(MShl(a.m, k)))

\* Math.sqrt(a), for a >= 0; the root of an even power of two is exact
MathSqrt(a) ==
    IF a.s = 0 THEN Zero
    ELSE IF a.m = TopBit /\ (a.e + MantBits - 1) % 2 = 0
    THEN [ s |-> 1, e |-> (a.e + MantBits - 1) \div 2 - (MantBits - 1),
           m |-> TopBit ]
    ELSE RootShifted(a, MantBits + 4 + ((a.e + MantBits) % 2))

\* Math.hypot(x, y): the magnitudes are divided by the greater, max, the
\* squares summed with a compensated (Kahan) summation, and the square root
\* of the sum multiplied by max.  HypotSecond is the second round of the
\* summation, after the first has left sum1 and its summand1.
Square(n) == NumMul(n, n)
HypotSecond(summand1, sum1, n2) ==
    NumAdd(sum1, NumSub(Square(n2), NumSub(NumSub(sum1, Zero), summand1)))
HypotFirst(summand1, n2) == HypotSecond(summand1, NumAdd(Zero, summand1), n2)
HypotSum(x, y, max) ==
    HypotFirst(NumSub(Square(NumDiv(x, max)), Zero), NumDiv(y, max))
HypotScaled(x, y, max) ==
    IF max.s = 0 THEN Zero ELSE NumMul(MathSqrt(HypotSum(x, y, max)), max)
Hypot(x, y) == HypotScaled(x, y, MathMax(x, y))
MathHypot(x, y) == Hypot(MathAbs(x), MathAbs(y))

\* 2^k
Pow2(k) == Rounded(1, << 1 >>, k, FALSE)

\* The number written a / 10^k in decimal, as a literal of the source
Dec(a, k) == NumDiv(Num(a), Num(10 ^ k))

\* The integer part of |a| * 2^FixBits, or FixCap when that is FixCap or more
FixBits == 5
FixCap == Radix
FixOf(t) == IF Len(t) > 1 THEN FixCap ELSE Limb(t, 1)
Fix(a) ==
    IF a.s = 0 THEN 0
    ELSE IF a.e + FixBits >= 0 THEN FixCap
    ELSE FixOf(MShr(a.m, 0 - (a.e + FixBits)))

\* 1 when Math.hypot(x, y) > limit and -1 when Math.hypot(x, y) < limit by
\* more than any rounding: xl, yl and ll are x, y and limit in fixed point,
\* each with an error below 2^-FixBits.  0 when that does not decide.
Clear(xl, yl, ll) ==
    IF xl >= FixCap \/ yl >= FixCap \/ ll >= FixCap THEN 0
    ELSE IF xl * xl + yl * yl > (ll + 2) * (ll + 2) THEN 1
    ELSE IF (xl + 2) * (xl + 2) + (yl + 2) * (yl + 2) < ll * ll THEN 0 - 1
    ELSE 0

HypotClear(x, y, limit) ==
    IF limit.s < 0 THEN 1 ELSE Clear(Fix(x), Fix(y), Fix(limit))

\* -1, 0 or 1 as Math.hypot(x, y) is less than, equal to or greater than
\* limit
Decided(x, y, limit, clear) ==
    IF clear # 0 THEN clear ELSE NumCmp(MathHypot(x, y), limit)
HypotCmp(x, y, limit) == Decided(x, y, limit, HypotClear(x, y, limit))

----------------------------------------------------------------------------
(* Helper functions *)

\* Math.min(max, Math.max(min, value))
clamp(value, min, max) == MathMin(max, MathMax(min, value))

\* Math.hypot(a.x - b.x, a.y - b.y)
distance(a, b) == MathHypot(NumSub(a.x, b.x), NumSub(a.y, b.y))

\* -1, 0 or 1 as distance(a, b) is less than, equal to or greater than limit
DistanceCmp(a, b, limit) ==
    HypotCmp(NumSub(a.x, b.x), NumSub(a.y, b.y), limit)

Has(pressed, b) == IF b \in pressed THEN Num(1) ELSE Zero

\* Fault variant: an absent axis read as full deflection
AxisOrFull(axes, name) == IF name \in DOMAIN axes THEN axes[name] ELSE Num(1)

\* axes.leftX ?? 0: an axis absent from the mapping is absent from the
\* record
AxisOrZero(axes, name) == IF name \in DOMAIN axes THEN axes[name] ELSE Zero

\* x and y of getInputVector before the normalisation
InputX(axes, pressed) ==
    clamp(NumSub(NumAdd(AxisOrZero(axes, "leftX"), Has(pressed, "dpadRight")),
                 Has(pressed, "dpadLeft")),
          Num(0 - 1), Num(1))
InputY(axes, pressed) ==
    clamp(NumSub(NumAdd(AxisOrZero(axes, "leftY"), Has(pressed, "dpadDown")),
                 Has(pressed, "dpadUp")),
          Num(0 - 1), Num(1))

\* { x: x / magnitude, y: y / magnitude }
Normalized(x, y, magnitude) ==
    [x |-> NumDiv(x, magnitude), y |-> NumDiv(y, magnitude)]

\* Fault variant: the clamped vector returned without normalisation
InputVectorRaw(x, y) == Normalized(x, y, Num(1))

\* magnitude = Math.max(1, Math.hypot(x, y)), and the vector returned
InputVector(x, y) == Normalized(x, y, MathMax(Num(1), MathHypot(x, y)))

getInputVector(axes, pressed) ==
    InputVector(InputX(axes, pressed), InputY(axes, pressed))

\* The results of Math.random() the model draws: 0, 1/2, the value that
\* randomBetween maps to NearPx right of the middle of the smaller board,
\* and the greatest number below 1
NearPx == 47
Randoms ==
    { Zero, Dec(5, 1),
      NumDiv(Num(NearPx + (MinBoard - 2 * PLAYER_SIZE) \div 2),
             Num(MinBoard - 2 * PLAYER_SIZE)),
      NumSub(Num(1), Pow2(0 - MantBits)) }

\* Math.random() * (max - min) + min
randomBetween(min, max) ==
    { NumAdd(NumMul(r, NumSub(max, min)), min) : r \in Randoms }

randomPoint(size) ==
    LET margin == Num(PLAYER_SIZE)
    IN  { [x |-> cx, y |-> cy] :
            cx \in randomBetween(margin, NumSub(Num(size), margin)),
            cy \in randomBetween(margin, NumSub(Num(size), margin)) }

\* The successive results of randomPoint that one call of spawnTarget may
\* consume: b throughout, or k copies of a and then b for the rest.
SampleStreams(size, ks) ==
    { [i \in 1 .. MaxTries + 1 |-> b] : b \in randomPoint(size) }
    \cup
    { [i \in 1 .. MaxTries + 1 |-> IF i <= k THEN a ELSE b] :
        k \in ks, a \in randomPoint(size), b \in randomPoint(size) }

\* distance(candidate, player) > 100
Far(candidate, p) == DistanceCmp(candidate, p, Num(MinDistance)) > 0

\* Fault variant: no fresh sample after the last failed test
RECURSIVE SpawnLoopNoRedraw(_, _, _, _)
SpawnLoopNoRedraw(p, samples, i, drawn) ==
    IF Far(samples[drawn], p) \/ i + 1 >= MaxTries
    THEN drawn
    ELSE SpawnLoopNoRedraw(p, samples, i + 1, drawn + 1)

\* The loop of spawnTarget: i is the loop counter, drawn the number of
\* samples drawn so far (candidate = samples[drawn]).  The value is the
\* number of the sample that is returned.
RECURSIVE SpawnLoop(_, _, _, _)
SpawnLoop(p, samples, i, drawn) ==
    IF i < MaxTries
    THEN IF Far(samples[drawn], p)
         THEN drawn
         ELSE SpawnLoop(p, samples, i + 1, drawn + 1)
    ELSE drawn

spawnDrawn(p, samples) == SpawnLoop(p, samples, 0, 1)

spawnTarget(size, p, samples) == samples[spawnDrawn(p, samples)]

----------------------------------------------------------------------------
(* The simulation step *)

RotationRate == 200           \* degrees per second
ScaleRate == 2                \* per second
MaxDt == Dec(5, 2)            \* 0.05
MinScale == Dec(5, 1)         \* 0.5
MaxScale == Dec(25, 1)        \* 2.5
TurboFactor == Dec(25, 1)     \* 2.5

\* const boardSize = Math.max(260, Math.min(width - 32, 420))
BoardSizeOf(width) == Max(MinBoard, Min(width - 32, MaxBoard))

\* Fault variant: dt without the cap
FrameDtUncapped(last, timestamp) ==
    LET l == IF last = NULL THEN timestamp ELSE last
    IN  NumDiv(NumSub(Num(timestamp), Num(l)), Num(1000))

\* dt of a step: Math.min((timestamp - (lastFrame ?? timestamp)) / 1000, 0.05)
FrameDt(last, timestamp) ==
    LET l == IF last = NULL THEN timestamp ELSE last
    IN  MathMin(NumDiv(NumSub(Num(timestamp), Num(l)), Num(1000)), MaxDt)

\* isTurbo ? BASE_SPEED * 2.5 : BASE_SPEED
CurrentSpeed(pressed) ==
    IF "x" \in pressed THEN NumMul(Num(BASE_SPEED), TurboFactor)
    ELSE Num(BASE_SPEED)

\* if (pressed.has("rb")) rotation += 200 * dt
Turned(rotation, pressed, dt) ==
    IF "rb" \in pressed
    THEN NumAdd(rotation, NumMul(Num(RotationRate), dt))
    ELSE rotation

\* if (pressed.has("lb")) rotation -= 200 * dt, and then rb
NextRotation(rotation, pressed, dt) ==
    Turned(IF "lb" \in pressed
           THEN NumSub(rotation, NumMul(Num(RotationRate), dt))
           ELSE rotation,
           pressed, dt)

\* if (pressed.has("rt")) newScale = Math.min(2.5, newScale + 2 * dt)
Grown(scale, pressed, dt) ==
    IF "rt" \in pressed
    THEN MathMin(MaxScale, NumAdd(scale, NumMul(Num(ScaleRate), dt)))
    ELSE scale

\* Fault variant: shrinking without Math.max
NextScaleNoFloor(scale, pressed, dt) ==
    Grown(IF "lt" \in pressed
          THEN NumSub(scale, NumMul(Num(ScaleRate), dt))
          ELSE scale,
          pressed, dt)

\* if (pressed.has("lt")) newScale = Math.max(0.5, newScale - 2 * dt), and
\* then rt
NextScale(scale, pressed, dt) ==
    Grown(IF "lt" \in pressed
          THEN MathMax(MinScale, NumSub(scale, NumMul(Num(ScaleRate), dt)))
          ELSE scale,
          pressed, dt)

\* PLAYER_SIZE / 2
HalfPlayer == NumDiv(Num(PLAYER_SIZE), Num(2))

\* Fault variant: clamped to the board, not inset by half the player
NextCoordLoose(prev, d, size) == clamp(NumAdd(prev, d), Zero, Num(size))

\* clamp(prev + d, PLAYER_SIZE / 2, boardSize - PLAYER_SIZE / 2)
NextCoord(prev, d, size) ==
    clamp(NumAdd(prev, d), HalfPlayer, NumSub(Num(size), HalfPlayer))

\* dx = input.x * currentSpeed * dt, dy = input.y * currentSpeed * dt
Moved(input, currentSpeed, dt) ==
    [ dx |-> NumMul(NumMul(input.x, currentSpeed), dt),
      dy |-> NumMul(NumMul(input.y, currentSpeed), dt) ]

Movement(pressed, axes, dt) ==
    Moved(getInputVector(axes, pressed), CurrentSpeed(pressed), dt)

\* The player state the updater returns, dx and dy being move
StepPlayer(prev, move, pressed, dt, size) ==
    [ x |-> NextCoord(prev.x, move.dx, size),
      y |-> NextCoord(prev.y, move.dy, size),
      rotation |-> NextRotation(prev.rotation, pressed, dt),
      scale |-> NextScale(prev.scale, pressed, dt) ]

\* (effectivePlayerSize + TARGET_SIZE) / 2
HitLimit(scale) ==
    NumDiv(NumAdd(NumMul(Num(PLAYER_SIZE), scale), Num(TARGET_SIZE)), Num(2))

\* Fault variant: dist < limit
CollidesInside(next, t) == DistanceCmp(next, t, HitLimit(next.scale)) < 0

\* dist <= (effectivePlayerSize + TARGET_SIZE) / 2
Collides(next, t) == DistanceCmp(next, t, HitLimit(next.scale)) <= 0

\* Fault variant: the new target is kept away from where the player was
NewTargetFromPrev(size, prev, next, samples) == spawnTarget(size, prev, samples)

\* const newTarget = spawnTarget(boardSize, next)
NewTarget(size, prev, next, samples) == spawnTarget(size, next, samples)

\* targetRef.current after the collision branch
RefAfterHit(ref, newTarget) == newTarget

\* Fault variant: the score counted twice per hit
ScoreTwice(value) == value + 2

\* setScore((value) => value + 1)
ScoreAfterHit(value) == value + 1

\* Fault variant: a cleanup that cancels nothing
CleanupNothing(queue, id) == queue

\* cancelAnimationFrame(rafId.current), when rafId.current is not null
Cleanup(queue, id) ==
    IF id # NULL THEN { r \in queue : r.id # id } ELSE queue


----------------------------------------------------------------------------
(* Bounds of the model *)

MaxFrames == 3                \* step callbacks per behaviour, Spec
MaxFramesLoop == 3            \* ... SpecLoop
MaxFramesMove == 5            \* ... SpecMove
MaxFramesScale == 17          \* ... SpecScale
MaxFramesSync == 4            \* ... SpecSync
MaxFramesHit == 2             \* ... SpecHit
MaxFramesResize == 7          \* ... SpecResize
MaxLoops == 2                 \* runs of the game-loop effect
MaxPending == 2               \* updaters queued between two renders
MaxPendingHit == 1            \* ... SpecHit

WindowWidths == { 240, 480 }
Tries == {}                   \* the step draws one point again and again
TriesHit == { 1 }             \* ... one point, then another again and again
Clock == 0                    \* the time of the latest frame

\* A target tagged with its spawn number n (history only)
Tag(pt, n) == [x |-> pt.x, y |-> pt.y, n |-> n]

\* An input snapshot: pressedRef.current and axesRef.current
Snap(pressed, axes) == [ pressed |-> pressed, axes |-> axes ]

\* The axis mappings: both axes absent, leftX alone, both
NoAxes == << >>
StickX(lx) == [ leftX |-> lx ]
Stick(lx, ly) == [ leftX |-> lx, leftY |-> ly ]

Neutral(pressed, axes) ==
    /\ pressed = {}
    /\ \A name \in DOMAIN axes : axes[name] = Zero

\* A setPlayer call whose updater React has not called yet
NotEager == [ done |-> FALSE ]
NoProbe == [ fn |-> "none" ]

----------------------------------------------------------------------------
(* The state after construction and the first commit *)

InitGame(widths) ==
    /\ \E w \in widths : boardSize = BoardSizeOf(w)
    /\ player = [ x |-> NumDiv(Num(boardSize), Num(2)),
                  y |-> NumDiv(Num(boardSize), Num(2)),
                  rotation |-> Zero, scale |-> Num(1) ]
    /\ \E pt \in randomPoint(boardSize) : target = Tag(pt, 0)
    /\ targetRef = target
    /\ score = 0
    /\ lastFrame = NULL
    /\ rafId = 0
    /\ rafQueue = { [id |-> 0, loop |-> 1, boardSize |-> boardSize] }
    /\ nextRaf = 1
    /\ loop = 1
    /\ mounted = TRUE
    /\ sync = [ due |-> FALSE, target |-> target ]
    /\ restart = FALSE
    /\ updates = << >>
    /\ frames = 0
    /\ stepped = FALSE
    /\ evals = 0
    /\ evs = << >>
    /\ collected = [ ns |-> {}, twice |-> FALSE,
                      last |-> Tag([x |-> Zero, y |-> Zero], NULL) ]
    /\ spawned = 0

Init == InitGame(WindowWidths) /\ probe = NoProbe

\* The smaller board, with the first target in its upper left corner
Idle ==
    /\ InitGame({ 240 })
    /\ target.x = Num(PLAYER_SIZE)
    /\ target.y = Num(PLAYER_SIZE)

----------------------------------------------------------------------------
(* The updater of setPlayer *)

\* What the evaluations of a step or a render have computed so far
Computed ==
    [ player |-> player, ref |-> targetRef, target |-> target,
      score |-> score, collected |-> collected, spawned |-> spawned,
      evs |-> << >> ]

\* What the collision branch leaves when newTarget is the result of
\* spawnTarget on the samples
Scored(c, seen, samples, newTarget) ==
    [ player |-> seen.next,
      ref |-> RefAfterHit(c.ref, newTarget),
      target |-> newTarget,
      score |-> ScoreAfterHit(c.score),
      collected |-> [ ns |-> c.collected.ns \cup { c.ref.n },
                      twice |-> c.collected.twice
                                \/ c.ref.n \in c.collected.ns,
                      last |-> c.ref ],
      spawned |-> c.spawned + 1,
      evs |-> Append(c.evs,
                [seen EXCEPT
                   !.samples = samples,
                   !.target = newTarget,
                   !.scored = ScoreAfterHit(c.score) - c.score]) ]

\* The outcomes of the collision branch of an evaluation that has seen a
\* hit, one for every stream of random samples
Hit(c, u, seen, ks) ==
    { Scored(c, seen, samples,
             Tag(NewTarget(u.size, c.player, seen.next, samples),
                 c.spawned + 1))
      : samples \in SampleStreams(u.size, ks) }

\* What an evaluation has computed before the collision branch, move being
\* dx and dy, next the player state returned
Seen(c, u, in, move, next) ==
    [ prev |-> c.player, next |-> next, tested |-> c.ref,
      latest |-> c.spawned,
      hit |-> Collides(next, c.ref), samples |-> << >>,
      target |-> c.target, scored |-> 0, dt |-> u.dt,
      delta |-> u.delta, size |-> u.size, stale |-> u.loop # loop,
      neutral |-> Neutral(in.pressed, in.axes),
      turbo |-> "x" \in in.pressed, move |-> move ]

\* One evaluation of the updater u on the state c.player, with the input
\* snapshot in: the outcomes
Outcomes(c, u, seen, ks) ==
    IF seen.hit
    THEN Hit(c, u, seen, ks)
    ELSE { [c EXCEPT !.player = seen.next, !.evs = Append(@, seen)] }

Evaluate(c, u, in, ks) ==
    UNION { UNION { Outcomes(c, u, Seen(c, u, in, move, next), ks)
                    : next \in { StepPlayer(c.player, move, in.pressed,
                                            u.dt, u.size) } }
            : move \in { Movement(in.pressed, in.axes, u.dt) } }

----------------------------------------------------------------------------
(* The animation-frame callback *)

\* The setPlayer call of the step callback of the request r, d ms after
\* the latest frame: dt, and the boardSize of the callback's closure
Update(r, d) ==
    [ dt |-> FrameDt(IF lastFrame = NULL THEN NULL ELSE Clock, Clock + d),
      delta |-> IF lastFrame = NULL THEN NULL ELSE d,
      size |-> r.boardSize, loop |-> r.loop, eager |-> NotEager ]

\* setPlayer queues the updater for the next render
Queues(u) ==
    /\ updates' = Append(updates, u)
    /\ UNCHANGED << targetRef, evals, evs, collected, spawned >>

\* setPlayer calls the updater at once, on the player state of the latest
\* render: c is what the call has computed.  The state returned and the
\* setTarget and setScore of a hit wait for the next render; the write to
\* targetRef.current does not.
Calls(u, c) ==
    /\ updates' = << [u EXCEPT !.eager =
                        [ done |-> TRUE, next |-> c.player,
                          set |-> c.evs[1].hit, target |-> c.target ]] >>
    /\ targetRef' = c.ref
    /\ evals' = evals + 1
    /\ evs' = c.evs
    /\ collected' = c.collected
    /\ spawned' = c.spawned

\* step(timestamp) of the request r: dt and lastFrame, setPlayer, the next
\* request
Step(deltas, maxFrames, maxPending, inputs, ks) ==
    /\ frames < maxFrames
    /\ Len(updates) < maxPending
    /\ \E r \in rafQueue, d \in deltas :
         /\ lastFrame' = Clock
         /\ \E u \in { Update(r, d) } :
              \/ Queues(u)
              \/ /\ updates = << >>
                 /\ \E in \in inputs :
                      \E c \in Evaluate(Computed, u, in, ks) : Calls(u, c)
         /\ rafQueue' = (rafQueue \ {r}) \cup
               { [id |-> nextRaf, loop |-> r.loop, boardSize |-> r.boardSize] }
         /\ rafId' = nextRaf
         /\ nextRaf' = nextRaf + 1
         /\ frames' = frames + 1
         /\ stepped' = (stepped \/ ~mounted \/ r.loop # loop)
    /\ UNCHANGED << boardSize, player, target, score, loop, mounted, sync,
                    restart, probe >>

----------------------------------------------------------------------------
(* Renders *)

\* A render takes the state an updater called in its step has returned,
\* and applies the setTarget and setScore of its hit
Taken(c, u) ==
    [c EXCEPT !.player = u.eager.next,
              !.target = IF u.eager.set THEN u.eager.target ELSE @,
              !.score = IF u.eager.set THEN ScoreAfterHit(@) ELSE @]

\* The pending setPlayer calls in order: the updaters not called yet are
\* evaluated
RECURSIVE EvaluateAll(_, _, _, _)
EvaluateAll(c, queue, in, ks) ==
    IF queue = << >> THEN { c }
    ELSE IF Head(queue).eager.done
    THEN EvaluateAll(Taken(c, Head(queue)), Tail(queue), in, ks)
    ELSE UNION { EvaluateAll(c1, Tail(queue), in, ks) :
                   c1 \in Evaluate(c, Head(queue), in, ks) }

\* The state a render commits.  The effect that syncs targetRef is due
\* when the target has changed, and keeps the target of this render.
Commits(c) ==
    /\ player' = c.player
    /\ targetRef' = c.ref
    /\ target' = c.target
    /\ score' = c.score
    /\ collected' = c.collected
    /\ spawned' = c.spawned
    /\ evs' = IF c.evs = << >> THEN evs ELSE c.evs
    /\ evals' = evals + Len(c.evs)
    /\ sync' = [ due |-> sync.due \/ c.target # target, target |-> c.target ]

\* What a render of Home does with the pending setPlayer calls
Drain(inputs, ks) ==
    /\ \E in \in inputs :
         \E c \in EvaluateAll(Computed, updates, in, ks) : Commits(c)
    /\ updates' = << >>

\* A render of Home caused by the pending setPlayer calls, and its commit.
\* The effects of the commit before it have run.
Commit(inputs, ks) ==
    /\ mounted
    /\ ~sync.due
    /\ ~restart
    /\ updates # << >>
    /\ Drain(inputs, ks)
    /\ UNCHANGED << boardSize, lastFrame, rafId, rafQueue, nextRaf, loop,
                    mounted, restart, frames, stepped, probe >>

\* A render of Home in which boardSize or vibrate has changed, and its
\* commit: the game-loop effect is due to run again
Resize(inputs, ks) ==
    /\ mounted
    /\ ~sync.due
    /\ ~restart
    /\ loop < MaxLoops
    /\ \E w \in WindowWidths : boardSize' = BoardSizeOf(w)
    /\ restart' = TRUE
    /\ Drain(inputs, ks)
    /\ UNCHANGED << lastFrame, rafId, rafQueue, nextRaf, loop, mounted,
                    frames, stepped, probe >>

----------------------------------------------------------------------------
(* Effects *)

\* The effects that follow a commit: targetRef.current = target, with the
\* target of the render that scheduled the effect, when the target has
\* changed; the cleanup of the game-loop effect and the effect again when
\* boardSize or vibrate has changed
Effects ==
    /\ mounted
    /\ sync.due \/ restart
    /\ targetRef' = IF sync.due THEN sync.target ELSE targetRef
    /\ sync' = [sync EXCEPT !.due = FALSE]
    /\ restart' = FALSE
    /\ IF restart
       THEN /\ rafQueue' = Cleanup(rafQueue, rafId) \cup
                  { [id |-> nextRaf, loop |-> loop + 1, boardSize |-> boardSize] }
            /\ lastFrame' = NULL
            /\ rafId' = nextRaf
            /\ nextRaf' = nextRaf + 1
            /\ loop' = loop + 1
       ELSE UNCHANGED << rafQueue, lastFrame, rafId, nextRaf, loop >>
    /\ UNCHANGED << boardSize, player, target, score, mounted, updates,
                    frames, stepped, evals, evs, collected, spawned, probe >>

\* The component unmounts: the cleanup alone; the setPlayer calls still
\* pending are dropped
Unmount ==
    /\ mounted
    /\ rafQueue' = Cleanup(rafQueue, rafId)
    /\ lastFrame' = NULL
    /\ mounted' = FALSE
    /\ updates' = << >>
    /\ UNCHANGED << boardSize, player, target, targetRef, score, rafId,
                    nextRaf, loop, sync, restart, frames, stepped, evals,
                    evs, collected, spawned, probe >>
----------------------------------------------------------------------------
(* Specifications *)

\* The whole game loop
PlayInputs ==
    { Snap({}, NoAxes), Snap({}, Stick(Zero, Zero)),
      Snap({ "dpadRight" }, StickX(Zero)),
      Snap({ "lt", "lb" }, Stick(Dec(0 - 5, 1), Num(1))) }
StepPlay == Step({ 50 }, MaxFrames, MaxPending, PlayInputs, Tries)
CommitPlay == Commit(PlayInputs, Tries)
Next == StepPlay \/ CommitPlay \/ Effects
Spec == Init /\ [][Next]_vars

\* The life of the game-loop effect, on the larger board with the first
\* target in its upper left corner
LoopInputs ==
    { Snap({ "dpadRight" }, Stick(Zero, Zero)),
      Snap({ "x", "dpadRight" }, Stick(Zero, Zero)),
      Snap({ "x", "dpadRight", "dpadDown" }, NoAxes) }
StepLoop == Step({ 10, 80 }, MaxFramesLoop, MaxPending, LoopInputs, Tries)
CommitLoop == Commit(LoopInputs, Tries)
ResizeLoop == Resize(LoopInputs, Tries)
NextLoop == StepLoop \/ CommitLoop \/ ResizeLoop \/ Effects \/ Unmount
InitLoop ==
    /\ InitGame({ 480 })
    /\ target.x = Num(PLAYER_SIZE)
    /\ target.y = Num(PLAYER_SIZE)
    /\ probe = NoProbe
SpecLoop == InitLoop /\ [][NextLoop]_vars

\* Turbo movement toward the edges of the smaller board, the first target
\* at its left margin
MoveInputs ==
    { Snap({ "x" }, Stick(Num(0 - 1), Zero)),
      Snap({ "x", "dpadRight" }, Stick(Zero, Zero)),
      Snap({ "x", "dpadRight", "dpadDown" }, NoAxes) }
StepMove == Step({ 50 }, MaxFramesMove, MaxPending, MoveInputs, Tries)
CommitMove == Commit(MoveInputs, Tries)
NextMove == StepMove \/ CommitMove \/ Effects
InitMove ==
    /\ InitGame({ 240 })
    /\ target.x = Num(PLAYER_SIZE)
    /\ probe = NoProbe
SpecMove == InitMove /\ [][NextMove]_vars

\* The trigger buttons, on the smaller board.  The player stays in the
\* centre and the target out of its reach, so no effect is ever due.
ScaleInputs == { Snap(b, StickX(Zero)) : b \in SUBSET { "lt", "rt" } }
StepScale == Step({ 50 }, MaxFramesScale, MaxPending, ScaleInputs, Tries)
CommitScale == Commit(ScaleInputs, Tries)
NextScale1 == StepScale \/ CommitScale
InitScale == Idle /\ probe = NoProbe
SpecScale == InitScale /\ [][NextScale1]_vars

\* Frames that arrive between a commit and its effects, on the smaller
\* board with the first target to the right of the player
SyncInputs ==
    { Snap({ "x", "dpadRight" }, [leftY |-> Zero]),
      Snap({ "x", "dpadLeft" }, Stick(Zero, Zero)) }
StepSync == Step({ 50 }, MaxFramesSync, MaxPendingHit, SyncInputs, Tries)
CommitSync == Commit(SyncInputs, Tries)
NextSync == StepSync \/ CommitSync \/ Effects
InitSync ==
    /\ InitGame({ 240 })
    /\ target.x = Num(boardSize \div 2 + NearPx)
    /\ target.y = Num(boardSize \div 2)
    /\ probe = NoProbe
SpecSync == InitSync /\ [][NextSync]_vars

\* Hits whose new target comes from two different samples, on the smaller
\* board with the first target to the right of the player
HitInputs ==
    { Snap({ "x", "dpadRight" }, [leftY |-> Zero]),
      Snap({ "x", "dpadLeft" }, Stick(Zero, Zero)) }
StepHit == Step({ 50 }, MaxFramesHit, MaxPendingHit, HitInputs, TriesHit)
CommitHit == Commit(HitInputs, TriesHit)
NextHit == StepHit \/ CommitHit \/ Effects
InitHit ==
    /\ InitGame({ 240 })
    /\ target.x = Num(boardSize \div 2 + NearPx)
    /\ target.y = Num(boardSize \div 2)
    /\ probe = NoProbe
SpecHit == InitHit /\ [][NextHit]_vars

\* A run to the right edge while the window changes its width, from the
\* larger board with the first target level with the player, at the right
\* margin
ResizeInputs == { Snap({ "x", "dpadRight" }, [leftY |-> Zero]) }
StepResize == Step({ 50 }, MaxFramesResize, MaxPending, ResizeInputs, Tries)
CommitResize == Commit(ResizeInputs, Tries)
ResizeResize == Resize(ResizeInputs, Tries)
NextResize == StepResize \/ CommitResize \/ ResizeResize \/ Effects
InitResize ==
    /\ InitGame({ 480 })
    /\ target.y = player.y
    /\ \A pt \in randomPoint(boardSize) : NumLeq(pt.x, target.x)
    /\ probe = NoProbe
SpecResize == InitResize /\ [][NextResize]_vars

----------------------------------------------------------------------------
(* The helper functions on their own *)

game == << boardSize, player, target, targetRef, score, lastFrame, rafId,
           rafQueue, nextRaf, loop, mounted, sync, restart, updates,
           frames, stepped, evals, evs, collected, spawned >>

DPad == { "dpadLeft", "dpadRight", "dpadUp", "dpadDown" }

\* The axis values: the tenths of [-1, 1]
AxisValues == { Dec(k, 1) : k \in 0 - 10 .. 10 }
AxisMaps ==
    { NoAxes } \cup { StickX(lx) : lx \in AxisValues }
    \cup { [leftY |-> ly] : ly \in AxisValues }
    \cup { Stick(lx, ly) : lx \in AxisValues, ly \in AxisValues }

InitVec ==
    /\ Idle
    /\ \E axes \in AxisMaps, pressed \in SUBSET DPad :
         probe = [ fn |-> "getInputVector", done |-> FALSE,
                   axes |-> axes, pressed |-> pressed,
                   out |-> [x |-> Zero, y |-> Zero] ]

CallGetInputVector ==
    /\ probe.fn = "getInputVector"
    /\ ~probe.done
    /\ probe' = [probe EXCEPT !.done = TRUE,
                              !.out = getInputVector(probe.axes, probe.pressed)]
    /\ UNCHANGED game

NextVec == CallGetInputVector
SpecVec == InitVec /\ [][NextVec]_vars

\* Where the player stands when spawnTarget is called
SpawnPlayers(size) ==
    { [x |-> cx, y |-> cy, rotation |-> Zero, scale |-> Num(1)] :
        cx \in { HalfPlayer, NumDiv(Num(size), Num(2)) },
        cy \in { NumDiv(Num(size), Num(2)), NumSub(Num(size), HalfPlayer) } }

InitSpawn ==
    /\ Idle
    /\ \E p \in SpawnPlayers(boardSize),
          samples \in SampleStreams(boardSize, 1 .. MaxTries + 1) :
         probe = [ fn |-> "spawnTarget", done |-> FALSE, player |-> p,
                   samples |-> samples, drawn |-> 0, out |-> samples[1] ]

CallSpawnTarget ==
    /\ probe.fn = "spawnTarget"
    /\ ~probe.done
    /\ probe' = [probe EXCEPT
                   !.done = TRUE,
                   !.drawn = spawnDrawn(probe.player, probe.samples),
                   !.out = spawnTarget(boardSize, probe.player, probe.samples)]
    /\ UNCHANGED game

NextSpawn == CallSpawnTarget
SpecSpawn == InitSpawn /\ [][NextSpawn]_vars

----------------------------------------------------------------------------
(* Properties *)

\* The evaluation made last
Latest == evs[Len(evs)]
Evaluated == evs # << >>

\* p.x and p.y lie in [PLAYER_SIZE / 2, size - PLAYER_SIZE / 2]
InBoard(p, size) ==
    /\ NumLeq(HalfPlayer, p.x) /\ NumLeq(p.x, NumSub(Num(size), HalfPlayer))
    /\ NumLeq(HalfPlayer, p.y) /\ NumLeq(p.y, NumSub(Num(size), HalfPlayer))

\* C1: on a board of fixed size the player's x and y always lie in
\* [PLAYER_SIZE / 2, boardSize - PLAYER_SIZE / 2].
PlayerInBounds == InBoard(player, boardSize)

\* A turbo step down and to the right from the centre of the smaller
\* board, then turbo steps to the right: the player was stopped at the
\* right edge, short of where the step led.
PlayerAtEdge ==
    /\ Evaluated
    /\ updates = << >>
    /\ player.x = NumSub(Num(boardSize), HalfPlayer)
    /\ NumLess(player.x, NumAdd(Latest.prev.x, Latest.move.dx))
    /\ NumLess(NumDiv(Num(boardSize), Num(2)), player.y)
    /\ Latest.turbo

\* C2: whatever combination of lt and rt is held, the scale stays within
\* [0.5, 2.5].
ScaleInRange == NumLeq(MinScale, player.scale) /\ NumLeq(player.scale, MaxScale)

\* The scale has grown from 1 to the upper limit and rt was held on.
ScaleAtLimit ==
    /\ Evaluated
    /\ evals = MaxFramesScale
    /\ player.scale = MaxScale
    /\ Latest.prev.scale = MaxScale
    /\ ~Latest.neutral

\* dist <= (PLAYER_SIZE * scale + TARGET_SIZE) / 2
Touching(p, t) ==
    NumLeq(NumMul(Num(2), distance(p, t)),
           NumAdd(NumMul(Num(PLAYER_SIZE), p.scale), Num(TARGET_SIZE)))

\* The setPlayer calls whose updater, called in its step, has detected a
\* collision: their setTarget and setScore take effect in the next render
Hits(queue) ==
    { i \in DOMAIN queue : queue[i].eager.done /\ queue[i].eager.set }

\* The score and the target the evaluations made so far have led to: the
\* states of the latest render and the updates that wait for the next
DueScore == score + Cardinality(Hits(updates))
DueTarget ==
    IF Hits(updates) = {} THEN target
    ELSE updates[CHOOSE i \in Hits(updates) :
                    \A j \in Hits(updates) : j <= i].eager.target

\* C3: the score never decreases; it changes only when updaters are
\* evaluated, by exactly +1 in an evaluation that detects a collision and
\* by 0 in any other.  The score state never runs ahead of the
\* evaluations: it is at most the score they have led to.
ScoreStepsByOne ==
    [][ /\ score' >= score
        /\ score' <= DueScore'
        /\ evals' = evals => DueScore' = DueScore
        /\ evals' # evals =>
             /\ \A i \in DOMAIN evs' :
                  evs'[i].scored = IF evs'[i].hit THEN 1 ELSE 0
             /\ DueScore' = DueScore
                  + Cardinality({ i \in DOMAIN evs' : evs'[i].hit }) ]_vars

\* An evaluation after a hit in which the player still overlaps the place
\* of the collected target, tested the new target and did not score again.
StillOverCollected ==
    /\ Evaluated
    /\ score = 1
    /\ evals >= 2
    /\ ~Latest.hit
    /\ Latest.tested = target
    /\ collected.last.n = 0
    /\ Collides(player, collected.last)

\* C4 as stated: the result is farther than 100 from the player unless the
\* 20 tested samples all fail, and then it is the 20th sample drawn.
AllTestsFail ==
    \A i \in 1 .. MaxTries : ~Far(probe.samples[i], probe.player)

SpawnFallsBackTo20th ==
    (probe.fn = "spawnTarget" /\ probe.done) =>
        IF AllTestsFail
        THEN probe.out = probe.samples[MaxTries]
        ELSE Far(probe.out, probe.player)

\* C4 amended: the result is farther than 100 from the player unless the 20
\* tested samples all fail, and then it is the 21st sample drawn, which is
\* returned untested.
SpawnFallsBackTo21st ==
    (probe.fn = "spawnTarget" /\ probe.done) =>
        IF AllTestsFail
        THEN /\ probe.drawn = MaxTries + 1
             /\ probe.out = probe.samples[MaxTries + 1]
        ELSE /\ probe.drawn <= MaxTries
             /\ Far(probe.out, probe.player)

\* Twenty samples failed and the 21st, a different point, was returned.
SpawnFellBack ==
    /\ probe.fn = "spawnTarget"
    /\ probe.done
    /\ AllTestsFail
    /\ probe.samples[MaxTries + 1] # probe.samples[MaxTries]
    /\ probe.out = probe.samples[MaxTries + 1]

\* C5: while the effect is mounted exactly one animation-frame request is
\* pending, it belongs to the active run of the effect, and no step
\* callback of a torn-down run is pending or has run.
OneLiveRequest ==
    /\ Cardinality(rafQueue) = IF mounted THEN 1 ELSE 0
    /\ \A r \in rafQueue :
         /\ r.id = rafId
         /\ r.loop = loop
         /\ ~restart => r.boardSize = boardSize
    /\ ~stepped

\* The effect ran again and the new loop has stepped.
LoopRestarted ==
    /\ mounted
    /\ loop = 2
    /\ lastFrame # NULL
    /\ Evaluated
    /\ ~Latest.stale
    /\ Latest.delta # NULL

\* Exact values, for the statements about magnitudes: s * m * 2^e with a
\* mantissa of any length.  Every number is one; products and sums of them
\* are formed without rounding.
ExactMul(a, b) ==
    IF a.s = 0 \/ b.s = 0 THEN Zero
    ELSE [s |-> a.s * b.s, e |-> a.e + b.e, m |-> MMul(a.m, b.m)]

\* a + b, am and bm being the mantissas at the exponent e
ExactAligned(a, b, am, bm, e) ==
    IF a.s = b.s THEN [s |-> a.s, e |-> e, m |-> MAdd(am, bm)]
    ELSE IF MCmp(am, bm) = 0 THEN Zero
    ELSE [ s |-> a.s * MCmp(am, bm), e |-> e, m |-> Gap(am, bm) ]

ExactAdd(a, b) ==
    IF a.s = 0 THEN b
    ELSE IF b.s = 0 THEN a
    ELSE ExactAligned(a, b, MShl(a.m, a.e - Min(a.e, b.e)),
                      MShl(b.m, b.e - Min(a.e, b.e)), Min(a.e, b.e))

ExactSub(a, b) == ExactAdd(a, NumNeg(b))

\* x^2 + y^2 <= r^2, exactly: the vector (x, y) is no longer than r >= 0
Within(x, y, r) ==
    ExactSub(ExactAdd(ExactMul(x, x), ExactMul(y, y)), ExactMul(r, r)).s <= 0

\* What rounding may add to a magnitude of 1, and to a movement in px
UnitSlack == Pow2(0 - 50)
MoveSlack == Pow2(0 - 40)

\* C6 as stated: the vector getInputVector returns has magnitude <= 1.
VectorAtMostUnit ==
    (probe.fn = "getInputVector" /\ probe.done) =>
        Within(probe.out.x, probe.out.y, Num(1))

\* C6 amended: the vector getInputVector returns has magnitude <= 1 up to
\* the rounding of the division by the magnitude: at most 1 + 2^-50.
VectorAboutUnit ==
    (probe.fn = "getInputVector" /\ probe.done) =>
        Within(probe.out.x, probe.out.y, NumAdd(Num(1), UnitSlack))

\* A stick deflection and the d-pad, on both axes: the returned vector is
\* longer than 1, though by less than the slack.
VectorDiagonal ==
    /\ probe.fn = "getInputVector"
    /\ probe.done
    /\ probe.axes = Stick(Dec(0 - 2, 1), Dec(7, 1))
    /\ probe.pressed = { "dpadRight" }
    /\ ~Within(probe.out.x, probe.out.y, Num(1))
    /\ NumLess(Num(1), MathHypot(probe.out.x, probe.out.y))

\* C7: an evaluation registers a hit if and only if the distance between
\* the next player position and the target is
\* <= (PLAYER_SIZE * scale + TARGET_SIZE) / 2.
HitIffWithinLimit ==
    \A i \in DOMAIN evs :
        evs[i].hit <=> Touching(evs[i].next, evs[i].tested)

\* The evaluation made last collected a target that lay exactly at the
\* limit.
HitAtTheLimit ==
    /\ Evaluated
    /\ score = 1
    /\ Latest.hit
    /\ Latest.tested = collected.last
    /\ player.y = collected.last.y
    /\ NumAdd(player.x, HitLimit(player.scale)) = collected.last.x
    /\ distance(player, collected.last) = HitLimit(player.scale)

\* What an evaluation may move the player by: 240 * 0.05 = 12 px, 30 px
\* with turbo
Reach(turbo) == IF turbo THEN Num(30) ELSE Num(12)

\* The dt of the updater the step callback has just passed to setPlayer
DtOfStep ==
    frames' = frames + 1 =>
        LET u == updates'[Len(updates')]
        IN  /\ lastFrame = NULL => u.delta = NULL /\ u.dt = Zero
            /\ lastFrame # NULL =>
                 /\ u.delta # NULL
                 /\ u.dt = IF u.delta >= 50 THEN Dec(50, 3)
                           ELSE Dec(u.delta, 3)

\* C8 as stated: dt is the difference of consecutive frame timestamps
\* capped at 50 ms, 0 for the first step after the loop is (re)started,
\* and the movement of an evaluation is at most 12 px, 30 px with turbo; a
\* player inside the board is displaced by no more than that.
DtCapped ==
    [][ /\ DtOfStep
        /\ evals' # evals =>
             \A i \in DOMAIN evs' :
                 LET e == evs'[i]
                 IN  /\ NumLeq(Zero, e.dt) /\ NumLeq(e.dt, MaxDt)
                     /\ Within(e.move.dx, e.move.dy, Reach(e.turbo))
                     /\ InBoard(e.prev, e.size) =>
                          Within(ExactSub(e.next.x, e.prev.x),
                                 ExactSub(e.next.y, e.prev.y), Reach(e.turbo))
      ]_vars

\* C8 amended: dt as stated, and the movement of an evaluation is at most
\* 12 px, 30 px with turbo, up to the rounding of the products and sums:
\* at most 2^-40 px more.
DtCappedAbout ==
    [][ /\ DtOfStep
        /\ evals' # evals =>
             \A i \in DOMAIN evs' :
                 LET e == evs'[i]
                     reach == NumAdd(Reach(e.turbo), MoveSlack)
                 IN  /\ NumLeq(Zero, e.dt) /\ NumLeq(e.dt, MaxDt)
                     /\ Within(e.move.dx, e.move.dy, reach)
                     /\ InBoard(e.prev, e.size) =>
                          Within(ExactSub(e.next.x, e.prev.x),
                                 ExactSub(e.next.y, e.prev.y), reach)
      ]_vars

\* A stalled frame in the restarted loop, with turbo held on a diagonal:
\* the movement is longer than 30 px, by less than the slack.
StalledFrame ==
    /\ Evaluated
    /\ loop = 2
    /\ ~Latest.stale
    /\ Latest.delta = 80
    /\ Latest.dt = MaxDt
    /\ Latest.turbo
    /\ Latest.move.dx = Latest.move.dy
    /\ ~Within(Latest.move.dx, Latest.move.dy, Num(30))

\* C9: an evaluation with neutral input (no button, leftX and leftY zero
\* or absent) leaves the player's position, rotation and scale unchanged.
NeutralStepKeepsPlayer ==
    \A i \in DOMAIN evs : evs[i].neutral => evs[i].next = evs[i].prev

\* A neutral evaluation with time elapsed, of a player that had moved,
\* turned and shrunk.
NeutralAfterMoving ==
    /\ Evaluated
    /\ Latest.neutral
    /\ Latest.dt # Zero
    /\ player = Latest.next
    /\ NumLess(player.x, NumDiv(Num(boardSize), Num(2)))
    /\ player.rotation # Zero
    /\ NumLess(player.scale, Num(1))

TargetBefore(s, i, t) == IF i = 1 THEN t ELSE s[i - 1].target

\* C11: an evaluation that detects no collision leaves the target and the
\* score as they were; one that detects a collision replaces the target by
\* the result of spawnTarget for the board and the player's next position,
\* and adds one to the score.  Nothing else changes either.  The target
\* and the score are those the evaluations made so far have led to: the
\* setTarget and setScore of an updater called in its step are counted
\* from that step on.
TargetMovesIffHit ==
    [][ /\ evals' = evals => DueTarget' = DueTarget /\ DueScore' = DueScore
        /\ evals' # evals =>
             /\ \A i \in DOMAIN evs' :
                  LET e == evs'[i]
                  IN  IF Touching(e.next, e.tested)
                      THEN /\ e.scored = 1
                           /\ e.target = Tag(spawnTarget(e.size, e.next, e.samples),
                                             e.latest + 1)
                      ELSE /\ e.scored = 0
                           /\ e.target = TargetBefore(evs', i, DueTarget)
             /\ DueTarget' = evs'[Len(evs')].target
             /\ DueScore' = DueScore
                  + Cardinality({ i \in DOMAIN evs' : evs'[i].scored = 1 })
      ]_vars

\* The evaluation made last moved the player onto the target, and the new
\* target is the first point drawn: one within MinDistance of where the
\* player was and farther than that from where the player is.
HitAfterMoving ==
    /\ Evaluated
    /\ score = 1
    /\ Latest.hit
    /\ Latest.tested = collected.last
    /\ Latest.move.dx # Zero
    /\ Latest.samples[1] # Latest.samples[2]
    /\ target = Tag(Latest.samples[1], 1)
    /\ ~Far(target, Latest.prev)
    /\ Far(target, player)

\* The evaluation made last before those of s, and s
Chain(before, s) ==
    (IF before = << >> THEN << >> ELSE << before[Len(before)] >>) \o s

\* C12: a target spawned farther than MinDistance from the player is hit
\* neither by the evaluation that spawned it nor by the one that follows.
NoHitRightAfterSpawn ==
    [][ evals' # evals =>
          LET chain == Chain(evs, evs')
          IN  \A i \in 1 .. Len(chain) - 1 :
                (chain[i].hit /\ Far(chain[i].target, chain[i].next))
                => ~chain[i + 1].hit ]_vars

============================================================================
